---- MODULE Spec2Model ----
(***************************************************************************)
(* Model of quickwit-proto's indexing module                               *)
(* (src/quickwit/quickwit-proto/src/indexing/mod.rs): the CpuCapacity      *)
(* value type with its textual and serde forms, the IndexingTask and       *)
(* IndexingPipelineId identities, the IndexingError taxonomy, and the      *)
(* ShardPositionsUpdate event.                                             *)
(*                                                                         *)
(* Text is a sequence of one-character strings, so that strip_suffix and   *)
(* parse::<u32> can look at single characters.  A u32 is a pair of 16-bit  *)
(* limbs [hi, lo], so that values up to 2^32 - 1 and the overflow of       *)
(* parse::<u32> are exact.  An f32 is [neg, m, e], the value m * 2^e with  *)
(* a 24-bit significand, rounded to nearest-even as the hardware does.     *)
(***************************************************************************)
EXTENDS Integers, Sequences, FiniteSets, TLC

\* ------------------------------------------------------------- bounds

\* Longest enumerated capacity string.
MaxLen == 4
\* JSON numbers k/1000 for k in 0..MaxMilli are enumerated.
MaxMilli == 260
\* Capacities 0..MaxCap milli-CPUs are enumerated.
MaxCap == 40

\* --------------------------------------------------------------- text

Digits == <<"0", "1", "2", "3", "4", "5", "6", "7", "8", "9">>

IsDigit(c) == \E i \in 1..10 : Digits[i] = c

DigitVal(c) == (CHOOSE i \in 1..10 : Digits[i] = c) - 1

\* The text as one string, as format! builds it.
RECURSIVE Text(_)
Text(s) ==
    IF s = <<>> THEN "" ELSE Head(s) \o Text(Tail(s))

\* ---------------------------------------------------------------- u32

Limb == 2 ^ 16

U32(n) == [hi |-> n \div Limb, lo |-> n % Limb]

U32Max == [hi |-> Limb - 1, lo |-> Limb - 1]

\* checked_mul(10) then checked_add(d): ok is FALSE on overflow.
CheckedMulAdd10(v, d) ==
    LET lo == v.lo * 10 + d
        hi == v.hi * 10 + lo \div Limb
    IN  [ok |-> hi < Limb, val |-> [hi |-> hi % Limb, lo |-> lo % Limb]]

DivMod10(v) ==
    LET mid == (v.hi % 10) * Limb + v.lo
    IN  [q |-> [hi |-> v.hi \div 10, lo |-> mid \div 10], r |-> mid % 10]

\* u32's Display: decimal digits, no sign, no leading zero.
RECURSIVE U32Display(_)
U32Display(v) ==
    LET dm == DivMod10(v)
        last == <<Digits[dm.r + 1]>>
    IN  IF dm.q = U32(0) THEN last ELSE U32Display(dm.q) \o last

Ok(v) == [tag |-> "Ok", val |-> v]

Err(e) == [tag |-> "Err", val |-> e]

\* The digit loop of u32::from_str_radix(_, 10).
RECURSIVE ParseDigits(_, _)
ParseDigits(acc, s) ==
    IF s = <<>> THEN Ok(acc)
    ELSE IF ~IsDigit(Head(s)) THEN Err("InvalidDigit")
    ELSE LET step == CheckedMulAdd10(acc, DigitVal(Head(s)))
         IN  IF step.ok THEN ParseDigits(step.val, Tail(s)) ELSE Err("PosOverflow")

\* str::parse::<u32>: an optional '+', then at least one digit; a '-' is an
\* invalid digit for an unsigned type.
ParseU32(s) ==
    IF s = <<>> THEN Err("Empty")
    ELSE IF Len(s) = 1 /\ Head(s) \in {"+", "-"} THEN Err("InvalidDigit")
    ELSE IF Head(s) = "+" THEN ParseDigits(U32(0), Tail(s))
    ELSE ParseDigits(U32(0), s)

\* A strip_suffix that drops the last character without looking at it.
StripLastChar(s) ==
    IF s # <<>>
        THEN [some |-> TRUE, rest |-> SubSeq(s, 1, Len(s) - 1)]
        ELSE [some |-> FALSE, rest |-> <<>>]

\* str::strip_suffix('m')
StripSuffixM(s) ==
    IF s # <<>> /\ s[Len(s)] = "m"
        THEN [some |-> TRUE, rest |-> SubSeq(s, 1, Len(s) - 1)]
        ELSE [some |-> FALSE, rest |-> <<>>]

\* -------------------------------------------------------- CpuCapacity

\* pub struct CpuCapacity(u32)
CpuCapacity(n) == [f0 |-> n]

\* A constructor that keeps the low 16 bits only.
from_cpu_millis_u16(n) == CpuCapacity([hi |-> 0, lo |-> n.lo])

from_cpu_millis(n) == CpuCapacity(n)

cpu_millis(c) == c.f0

mcpu(n) == from_cpu_millis(n)

zero == from_cpu_millis(U32(0))

one_cpu_thread == from_cpu_millis(U32(1000))

PIPELINE_FULL_CAPACITY == from_cpu_millis(U32(4000))

\* The abort of an arithmetic overflow in a build with overflow checks.
Panic(message) == [tag |-> "Panic", val |-> message]

\* A subtraction guarded to stop at zero.
sub_saturating(a, b, overflow_checks) ==
    IF a.f0.hi < b.f0.hi \/ (a.f0.hi = b.f0.hi /\ a.f0.lo < b.f0.lo)
        THEN Ok(from_cpu_millis(U32(0)))
        ELSE LET lo == a.f0.lo - b.f0.lo
                 hi == a.f0.hi - b.f0.hi - (IF lo < 0 THEN 1 ELSE 0)
             IN  Ok(from_cpu_millis([hi |-> hi, lo |-> (lo + Limb) % Limb]))

\* impl Sub<CpuCapacity> for CpuCapacity: self.0 - rhs.0 on u32.  Below zero
\* the build decides: with overflow checks (debug) the subtraction panics,
\* without them (release) it wraps modulo 2^32.
sub(a, b, overflow_checks) ==
    LET lo == a.f0.lo - b.f0.lo
        hi == a.f0.hi - b.f0.hi - (IF lo < 0 THEN 1 ELSE 0)
    IN  IF hi < 0 /\ overflow_checks THEN Panic("attempt to subtract with overflow")
        ELSE Ok(from_cpu_millis([hi |-> (hi + Limb) % Limb, lo |-> (lo + Limb) % Limb]))

\* impl Add<CpuCapacity> for CpuCapacity: self.0 + rhs.0 on u32, with the same
\* two outcomes above u32::MAX.
add(a, b, overflow_checks) ==
    LET lo == a.f0.lo + b.f0.lo
        hi == a.f0.hi + b.f0.hi + lo \div Limb
    IN  IF hi >= Limb /\ overflow_checks THEN Panic("attempt to add with overflow")
        ELSE Ok(from_cpu_millis([hi |-> hi % Limb, lo |-> lo % Limb]))

\* impl Display for CpuCapacity: write!(f, "{}m", self.0)
CapDisplay(c) == U32Display(c.f0) \o <<"m">>

\* The grave accent (U+0060) of the messages: a TLA+ string cannot hold it.
Backtick == "<U+0060>"

\* format!("invalid cpu capacity: `{cpu_capacity_str}`. String format expects a trailing 'm'.")
MissingSuffixMsg(s) ==
    "invalid cpu capacity: " \o Backtick \o Text(s) \o Backtick
        \o ". String format expects a trailing 'm'."

\* format!("invalid cpu capacity: `{cpu_capacity_str}`.")
InvalidMsg(s) ==
    "invalid cpu capacity: " \o Backtick \o Text(s) \o Backtick \o "."

\* impl FromStr for CpuCapacity
from_str(s) ==
    LET stripped == StripSuffixM(s)
        parsed == ParseU32(stripped.rest)
    IN  IF ~stripped.some THEN Err(MissingSuffixMsg(s))
        ELSE IF parsed.tag = "Err" THEN Err(InvalidMsg(s))
        ELSE Ok(CpuCapacity(parsed.val))

\* ---------------------------------------------------------------- f32

RECURSIVE BitLen(_)
BitLen(n) ==
    IF n = 0 THEN 0 ELSE 1 + BitLen(n \div 2)

\* q + rem/unit rounded to the nearest integer, ties to even (twiceRem = 2*rem).
RoundHalfEven(q, twiceRem, unit) ==
    IF twiceRem > unit \/ (twiceRem = unit /\ q % 2 = 1) THEN q + 1 ELSE q

\* A rounded significand that reached 2^24 is renormalised.
Normalize(neg, m, e) ==
    IF m = 2 ^ 24 THEN [neg |-> neg, m |-> 2 ^ 23, e |-> e + 1]
    ELSE [neg |-> neg, m |-> m, e |-> e]

\* n more binary digits of r/den appended to acc: [acc, r].
RECURSIVE FracBits(_, _, _, _)
FracBits(acc, r, den, n) ==
    IF n = 0 THEN [acc |-> acc, r |-> r]
    ELSE IF 2 * r >= den THEN FracBits(2 * acc + 1, 2 * r - den, den, n - 1)
    ELSE FracBits(2 * acc, 2 * r, den, n - 1)

\* The first 1 bit of r/den < 1: z doublings reach it, r is what follows it.
RECURSIVE Lead(_, _, _)
Lead(r, den, z) ==
    IF r >= den THEN [r |-> r - den, z |-> z] ELSE Lead(2 * r, den, z + 1)

\* The f32 nearest to num/den (num >= 0, den > 0): what `as f32` gives on the
\* f64 or integer that serde_json read.  The f64 in between changes nothing for
\* decimals of a few digits: none of them is that close to a midpoint of two f32.
ToF32(neg, num, den) ==
    LET int == num \div den
        r == num % den
        len == BitLen(int)
    IN  IF num = 0 THEN [neg |-> neg, m |-> 0, e |-> 0]
        ELSE IF len > 24 THEN
            LET k == len - 24
                rem == int % (2 ^ k)
            IN  Normalize(neg, RoundHalfEven(int \div (2 ^ k), 2 * (rem * den + r), (2 ^ k) * den), k)
        ELSE IF len > 0 THEN
            LET fb == FracBits(int, r, den, 24 - len)
            IN  Normalize(neg, RoundHalfEven(fb.acc, 2 * fb.r, den), len - 24)
        ELSE
            LET ld == Lead(r, den, 0)
                fb == FracBits(1, ld.r, den, 23)
            IN  Normalize(neg, RoundHalfEven(fb.acc, 2 * fb.r, den), 0 - ld.z - 23)

\* x * 1000.0f32: the exact product m * 125 * 2^(e + 3), rounded to 24 bits.
F32MulThousand(x) ==
    LET p == x.m * 125
        k == BitLen(p) - 24
    IN  IF x.m = 0 THEN x
        ELSE Normalize(x.neg, RoundHalfEven(p \div (2 ^ k), 2 * (p % (2 ^ k)), 2 ^ k), x.e + 3 + k)

\* `as u32` on an f32: toward zero, saturating at 0 and at u32::MAX.
F32AsU32(x) ==
    IF x.m = 0 \/ x.neg THEN U32(0)
    ELSE IF x.e >= 9 THEN U32Max
    ELSE IF x.e >= 0 THEN
        [hi |-> x.m \div (2 ^ (16 - x.e)), lo |-> (x.m % (2 ^ (16 - x.e))) * (2 ^ x.e)]
    ELSE IF x.e <= -24 THEN U32(0)
    ELSE U32(x.m \div (2 ^ (0 - x.e)))

\* ---------------------------------------------------------------- serde

JsonNumber(neg, num, den) == [kind |-> "Number", neg |-> neg, num |-> num, den |-> den]

JsonString(s) == [kind |-> "String", str |-> s]

JsonNull == [kind |-> "Null"]

JsonBool(b) == [kind |-> "Bool", bool |-> b]

\* enum CpuCapacityForSerialization
Float(x) == [variant |-> "Float", f0 |-> x]

MilliCpuWithUnit(s) == [variant |-> "MilliCpuWithUnit", f0 |-> s]

\* #[serde(untagged)] Deserialize: the variants are tried in declaration order.
DeserializeUntagged(json) ==
    IF json.kind = "Number" THEN Ok(Float(ToF32(json.neg, json.num, json.den)))
    ELSE IF json.kind = "String" THEN Ok(MilliCpuWithUnit(json.str))
    ELSE Err("data did not match any variant of untagged enum CpuCapacityForSerialization")

\* impl TryFrom<CpuCapacityForSerialization> for CpuCapacity
try_from(v) ==
    IF v.variant = "Float" THEN Ok(CpuCapacity(F32AsU32(F32MulThousand(v.f0))))
    ELSE from_str(v.f0)

\* #[serde(try_from = "CpuCapacityForSerialization")]
Deserialize(json) ==
    LET raw == DeserializeUntagged(json)
    IN  IF raw.tag = "Err" THEN raw ELSE try_from(raw.val)

\* A conversion that forgets the unit.
into_serialization_bare(c) == MilliCpuWithUnit(U32Display(c.f0))

\* impl From<CpuCapacity> for CpuCapacityForSerialization
into_serialization(c) == MilliCpuWithUnit(U32Display(c.f0) \o <<"m">>)

\* #[serde(untagged)] Serialize: the variant's content alone.
SerializeUntagged(v) ==
    IF v.variant = "Float" THEN [kind |-> "F32", f32 |-> v.f0] ELSE JsonString(v.f0)

\* #[serde(into = "CpuCapacityForSerialization")]
Serialize(c) == SerializeUntagged(into_serialization(c))

\* ------------------------------------------------------ IndexingError

\* The ServiceErrorCode values error_code names, and two more of the enum for
\* the codes a metastore error can carry.
ServiceErrorCodes ==
    {"Internal", "Timeout", "Unavailable", "Unimplemented", "NotFound", "AlreadyExists"}

Messages ==
    { "boom",
      "",
      "request could not be delivered to actor",
      "an error occurred while processing the request" }

\* A MetastoreError, by what this module reads of it: its error code.
MetastoreError(code, message) == [code |-> code, message |-> message]

MetastoreErrors == {MetastoreError(c, m) : c \in ServiceErrorCodes, m \in {"boom", ""}}

\* MetastoreError's ServiceError::error_code
metastore_error_code(metastore_error) == metastore_error.code

\* enum IndexingError
Internal(message) == [variant |-> "Internal", f0 |-> message]

Metastore(metastore_error) == [variant |-> "Metastore", f0 |-> metastore_error]

Timeout(message) == [variant |-> "Timeout", f0 |-> message]

Unavailable(message) == [variant |-> "Unavailable", f0 |-> message]

Unimplemented(message) == [variant |-> "Unimplemented", f0 |-> message]

\* The errors that carry a message, and those that wrap a metastore error.
MessageErrors ==
    {Internal(m) : m \in Messages} \cup {Timeout(m) : m \in Messages}
        \cup {Unavailable(m) : m \in Messages} \cup {Unimplemented(m) : m \in Messages}

WrappingErrors == {Metastore(e) : e \in MetastoreErrors}

\* An error_code that hardcodes the Metastore variant's code.
error_code_flat(error) ==
    CASE error.variant = "Internal" -> "Internal"
      [] error.variant = "Metastore" -> "Internal"
      [] error.variant = "Timeout" -> "Timeout"
      [] error.variant = "Unavailable" -> "Unavailable"
      [] error.variant = "Unimplemented" -> "Unimplemented"

\* impl ServiceError for IndexingError
error_code(error) ==
    CASE error.variant = "Internal" -> "Internal"
      [] error.variant = "Metastore" -> metastore_error_code(error.f0)
      [] error.variant = "Timeout" -> "Timeout"
      [] error.variant = "Unavailable" -> "Unavailable"
      [] error.variant = "Unimplemented" -> "Unimplemented"

\* impl GrpcServiceError for IndexingError
new_internal(message) == Internal(message)

new_timeout(message) == Timeout(message)

new_unavailable(message) == Unavailable(message)

new_unimplemented(message) == Unimplemented(message)

service_name == "indexing"

\* AskError<IndexingError>: the three outcomes the match names.
ErrorReply(error) == [variant |-> "ErrorReply", f0 |-> error]

MessageNotDelivered == [variant |-> "MessageNotDelivered"]

ProcessMessageError == [variant |-> "ProcessMessageError"]

\* A conversion with the two transport outcomes swapped.
from_ask_error_swapped(error) ==
    CASE error.variant = "ErrorReply" -> error.f0
      [] error.variant = "MessageNotDelivered" ->
            Internal("an error occurred while processing the request")
      [] error.variant = "ProcessMessageError" ->
            Unavailable("request could not be delivered to actor")

\* impl From<AskError<IndexingError>> for IndexingError
from_ask_error(error) ==
    CASE error.variant = "ErrorReply" -> error.f0
      [] error.variant = "MessageNotDelivered" ->
            new_unavailable("request could not be delivered to actor")
      [] error.variant = "ProcessMessageError" ->
            new_internal("an error occurred while processing the request")

\* ------------------------------------------------- pipelines and tasks

NodeIds == {"node-1", "node-2"}

IndexUids == {"wiki:01H", "logs:02J"}

SourceIds == {"kafka", "ingest"}

None == [some |-> FALSE, v |-> 0]

Some(v) == [some |-> TRUE, v |-> v]

PipelineUids == {1, 2}

\* struct IndexingPipelineId
IndexingPipelineId(node_id, index_uid, source_id, pipeline_uid) ==
    [node_id |-> node_id, index_uid |-> index_uid, source_id |-> source_id,
     pipeline_uid |-> pipeline_uid]

PipelineIds ==
    {IndexingPipelineId(n, i, s, p) :
        n \in NodeIds, i \in IndexUids, s \in SourceIds, p \in PipelineUids}

\* The generated message IndexingTask: the fields this module reads, and
\* `params`, which stands for the fields it never reads.  index_uid is the
\* value the index_uid() accessor returns; pipeline_uid is the Option that
\* pipeline_uid() unwraps.
IndexingTask(index_uid, source_id, pipeline_uid, params) ==
    [index_uid |-> index_uid, source_id |-> source_id, pipeline_uid |-> pipeline_uid,
     params |-> params]

Tasks ==
    {IndexingTask(i, s, p, q) :
        i \in IndexUids, s \in SourceIds,
        p \in {None} \cup {Some(u) : u \in PipelineUids}, q \in {"shards-0", "shards-1"}}

\* A Display that prints the node too.
PipelineDisplayWithNode(id) == id.node_id \o "/" \o id.index_uid \o ":" \o id.source_id

\* impl Display for IndexingPipelineId
PipelineDisplay(id) == id.index_uid \o ":" \o id.source_id

\* impl Display for IndexingTask
TaskDisplay(task) == task.index_uid \o ":" \o task.source_id

\* An equality on the pipeline uid alone.
TaskEqByPipeline(a, b) == a.pipeline_uid = b.pipeline_uid

\* An equality that forgets the source.
TaskEqNoSource(a, b) ==
    /\ a.index_uid = b.index_uid
    /\ a.pipeline_uid = b.pipeline_uid
    /\ a.params = b.params

\* IndexingTask's PartialEq is the derived one (`impl Eq for IndexingTask {}`
\* adds only the marker; the comment on the Hash impl names "the default
\* derived implementation"): every field is compared.
TaskEq(a, b) ==
    /\ a.index_uid = b.index_uid
    /\ a.source_id = b.source_id
    /\ a.pipeline_uid = b.pipeline_uid
    /\ a.params = b.params

\* A hash of every field the derived Hash would read.
TaskHashAllFields(task, state) ==
    state \o <<task.index_uid, task.source_id>> \o <<task.pipeline_uid>>

\* impl Hash for IndexingTask: what is written to the hasher, in order.  Any
\* Hasher's finish() is a function of this stream.
TaskHash(task, state) == state \o <<task.index_uid, task.source_id>>

\* A hashed container of tasks (HashSet, HashMap keys) holding `stored`, asked
\* for `probe`: the probe's hash selects the entries to look at, == decides
\* among them.
Contains(stored, probe) ==
    \E t \in stored : TaskHash(t, <<>>) = TaskHash(probe, <<>>) /\ TaskEq(t, probe)

\* IndexingTask::pipeline_uid: expect() panics on None.
pipeline_uid(task) ==
    IF task.pipeline_uid.some THEN Ok(task.pipeline_uid.v)
    ELSE [tag |-> "Panic", val |-> Backtick \o "pipeline_uid" \o Backtick \o " should be a required field"]

\* ------------------------------------------------ ShardPositionsUpdate

ShardIds == {"A", "B"}

\* Position values; 0 is the beginning of a shard.
Positions == {0, 5, 7, 9}

SourceUids == {<<i, "ingest">> : i \in IndexUids}

\* struct ShardPositionsUpdate
ShardPositionsUpdate(source_uid, updated_shard_positions) ==
    [source_uid |-> source_uid, updated_shard_positions |-> updated_shard_positions]

\* A reconciliation that only ever advances a shard.
RECURSIVE ApplyPositionsMonotone(_, _)
ApplyPositionsMonotone(shards, list) ==
    IF list = <<>> THEN shards
    ELSE LET sh == Head(list)[1]
             p == Head(list)[2]
         IN  ApplyPositionsMonotone(
                [shards EXCEPT ![sh] = IF p > @ THEN p ELSE @], Tail(list))

\* A subscriber's reconciliation of one update into its per-shard view of one
\* source: the pairs are applied in list order, a listed shard takes the listed
\* position, the others keep theirs.
RECURSIVE ApplyPositions(_, _)
ApplyPositions(shards, list) ==
    IF list = <<>> THEN shards
    ELSE ApplyPositions([shards EXCEPT ![Head(list)[1]] = Head(list)[2]], Tail(list))

ApplyUpdate(v, update) ==
    [v EXCEPT ![update.source_uid] = ApplyPositions(@, update.updated_shard_positions)]

\* -------------------------------------------------------------- state

\* call: one call on the module's API: the operation and its argument, and once
\* the call is done its result.
\* view, prev_view, last_update: a subscriber of ShardPositionsUpdate events.
VARIABLES call, view, prev_view, last_update

vars == <<call, view, prev_view, last_update>>

Alphabet == {"0", "1", "7", "m", "+", "."}

RECURSIVE StringsUpTo(_)
StringsUpTo(n) ==
    IF n = 0 THEN {<<>>}
    ELSE LET shorter == StringsUpTo(n - 1)
         IN  shorter \cup {Append(s, c) : s \in shorter, c \in Alphabet}

NotableStrings ==
    { <<"2", "0", "0", "0", "m">>,
      <<"1", "2", "0", "0", "m">>,
      <<"2", ".", "5">>,
      <<"2", ".", "5", "m">>,
      <<"-", "5", "m">>,
      <<"0", "0", "7", "m">>,
      <<"4", "2", "9", "4", "9", "6", "7", "2", "9", "5", "m">>,
      <<"4", "2", "9", "4", "9", "6", "7", "2", "9", "6", "m">>,
      <<"9", "9", "9", "9", "9", "9", "9", "9", "9", "9", "9", "m">> }

StrInputs == StringsUpTo(MaxLen) \cup NotableStrings

\* u32 values: the small ones, the ones the tests and constants name, the largest.
U32Inputs ==
    {U32(n) : n \in 0..MaxCap} \cup {U32(1000), U32(1200), U32(2500), U32(4000)}
        \cup {[hi |-> 2 ^ 15, lo |-> 0], U32Max}

\* JSON numbers: k/1000 for small k, and 1.2, 1, 2.5, -1.5, -0.001, 16777.217,
\* 4294967, 4294968.
NumberInputs ==
    {JsonNumber(FALSE, k, 1000) : k \in 0..MaxMilli}
        \cup { JsonNumber(FALSE, 12, 10), JsonNumber(FALSE, 1, 1), JsonNumber(FALSE, 25, 10),
               JsonNumber(TRUE, 15, 10), JsonNumber(TRUE, 1, 1000),
               JsonNumber(FALSE, 16777217, 1000), JsonNumber(FALSE, 4294967, 1),
               JsonNumber(FALSE, 4294968, 1) }

NoUpdate == ShardPositionsUpdate(<<"", "">>, <<>>)

RECURSIVE ListsUpTo(_)
ListsUpTo(n) ==
    IF n = 0 THEN {<<>>}
    ELSE LET shorter == ListsUpTo(n - 1)
         IN  shorter \cup {Append(l, <<sh, p>>) : l \in shorter, sh \in ShardIds, p \in Positions}

UpdateLists == ListsUpTo(2)

Request(op, arg) == [op |-> op, arg |-> arg, done |-> FALSE]

Response(op, arg, ret) == [op |-> op, arg |-> arg, done |-> TRUE, ret |-> ret]

NamedCapacities == {"zero", "one_cpu_thread", "PIPELINE_FULL_CAPACITY"}

NewErrorOps == {"new_internal", "new_timeout", "new_unavailable", "new_unimplemented"}

InitSubscriber ==
    /\ view = [su \in SourceUids |-> [sh \in ShardIds |-> 0]]
    /\ prev_view = view
    /\ last_update = NoUpdate

\* One call with its argument drawn, not yet made.
Init ==
    /\ \/ call \in {Request("from_str", s) : s \in StrInputs}
       \/ call \in {Request("from_cpu_millis", n) : n \in U32Inputs}
       \/ call \in {Request(name, <<>>) : name \in NamedCapacities}
       \/ call \in {Request("deserialize", json) : json \in NumberInputs}
       \/ call \in {Request("deserialize", JsonString(s)) :
                        s \in StringsUpTo(MaxLen - 1) \cup NotableStrings}
       \/ call \in {Request("deserialize", json) : json \in {JsonNull}}
       \/ call \in {Request("deserialize", json) : json \in {JsonBool(TRUE), JsonBool(FALSE)}}
       \/ call \in {Request("round_trip", json) : json \in NumberInputs}
       \/ call \in {Request("round_trip", JsonString(s)) :
                        s \in StringsUpTo(MaxLen - 1) \cup NotableStrings}
       \/ call \in {Request("serialize", from_cpu_millis(n)) : n \in U32Inputs}
       \/ call \in {Request(op, <<from_cpu_millis(a), from_cpu_millis(b), checks>>) :
                        op \in {"sub", "add"}, a \in U32Inputs, b \in U32Inputs,
                        checks \in BOOLEAN}
       \/ call \in {Request("error_code", e) : e \in MessageErrors}
       \/ call \in {Request("error_code", e) : e \in WrappingErrors}
       \/ call \in {Request(op, m) : op \in NewErrorOps, m \in Messages}
       \/ call \in {Request("from_ask_error", ErrorReply(e)) : e \in MessageErrors}
       \/ call \in {Request("from_ask_error", ErrorReply(e)) : e \in WrappingErrors}
       \/ call \in {Request("from_ask_error", e) : e \in {MessageNotDelivered}}
       \/ call \in {Request("from_ask_error", e) : e \in {ProcessMessageError}}
       \/ call \in {Request("compare_tasks", <<a, b>>) : a \in Tasks, b \in Tasks}
       \/ call \in {Request("lookup", <<a, b>>) : a \in Tasks, b \in Tasks}
       \/ call \in {Request("display_pipeline", id) : id \in PipelineIds}
       \/ call \in {Request("display_task", task) : task \in Tasks}
       \/ call \in {Request("pipeline_uid", task) : task \in Tasks}
    /\ InitSubscriber

Subscriber == <<view, prev_view, last_update>>

Pending(op) == call.op = op /\ ~call.done

\* ---------------------------------------------------------- API calls

CallFromStr ==
    /\ Pending("from_str")
    /\ call' = Response(call.op, call.arg, from_str(call.arg))
    /\ UNCHANGED Subscriber

CallFromCpuMillis ==
    /\ Pending("from_cpu_millis")
    /\ call' = Response(call.op, call.arg, cpu_millis(from_cpu_millis(call.arg)))
    /\ UNCHANGED Subscriber

CallNamedCapacity ==
    /\ \/ Pending("zero") /\ call' = Response(call.op, call.arg, cpu_millis(zero))
       \/ Pending("one_cpu_thread")
            /\ call' = Response(call.op, call.arg, cpu_millis(one_cpu_thread))
       \/ Pending("PIPELINE_FULL_CAPACITY")
            /\ call' = Response(call.op, call.arg, cpu_millis(PIPELINE_FULL_CAPACITY))
    /\ UNCHANGED Subscriber

\* serde_json::from_value::<CpuCapacity>
CallDeserialize ==
    /\ Pending("deserialize")
    /\ call' = Response(call.op, call.arg, Deserialize(call.arg))
    /\ UNCHANGED Subscriber

\* serde_json::to_value of a capacity
CallSerialize ==
    /\ Pending("serialize")
    /\ call' = Response(call.op, call.arg, Serialize(call.arg))
    /\ UNCHANGED Subscriber

\* from_value, then to_value of the capacity it gave, then from_value of that.
CallRoundTrip ==
    /\ Pending("round_trip")
    /\ LET first == Deserialize(call.arg)
       IN  IF first.tag = "Ok"
           THEN call' = [op |-> call.op, arg |-> call.arg, done |-> TRUE, ret |-> first,
                         wire |-> Serialize(first.val),
                         back |-> Deserialize(Serialize(first.val))]
           ELSE call' = [op |-> call.op, arg |-> call.arg, done |-> TRUE, ret |-> first,
                         wire |-> JsonNull, back |-> first]
    /\ UNCHANGED Subscriber

\* a - b and a + b, in a build with or without overflow checks.
CallArithmetic ==
    /\ \/ Pending("sub")
            /\ call' = Response(call.op, call.arg, sub(call.arg[1], call.arg[2], call.arg[3]))
       \/ Pending("add")
            /\ call' = Response(call.op, call.arg, add(call.arg[1], call.arg[2], call.arg[3]))
    /\ UNCHANGED Subscriber

CallErrorCode ==
    /\ Pending("error_code")
    /\ call' = Response(call.op, call.arg, error_code(call.arg))
    /\ UNCHANGED Subscriber

CallNewError ==
    /\ \/ Pending("new_internal") /\ call' = Response(call.op, call.arg, new_internal(call.arg))
       \/ Pending("new_timeout") /\ call' = Response(call.op, call.arg, new_timeout(call.arg))
       \/ Pending("new_unavailable")
            /\ call' = Response(call.op, call.arg, new_unavailable(call.arg))
       \/ Pending("new_unimplemented")
            /\ call' = Response(call.op, call.arg, new_unimplemented(call.arg))
    /\ UNCHANGED Subscriber

CallFromAskError ==
    /\ Pending("from_ask_error")
    /\ call' = Response(call.op, call.arg, from_ask_error(call.arg))
    /\ UNCHANGED Subscriber

\* a == b, and both fed to a fresh hasher.
CallCompareTasks ==
    /\ Pending("compare_tasks")
    /\ call' = [op |-> call.op, arg |-> call.arg, done |-> TRUE,
                ret |-> TaskEq(call.arg[1], call.arg[2]),
                hash_a |-> TaskHash(call.arg[1], <<>>),
                hash_b |-> TaskHash(call.arg[2], <<>>)]
    /\ UNCHANGED Subscriber

\* A set that holds a alone is asked for b.
CallLookup ==
    /\ Pending("lookup")
    /\ call' = [op |-> call.op, arg |-> call.arg, done |-> TRUE,
                ret |-> Contains({call.arg[1]}, call.arg[2]),
                eq |-> TaskEq(call.arg[1], call.arg[2]),
                hash_a |-> TaskHash(call.arg[1], <<>>),
                hash_b |-> TaskHash(call.arg[2], <<>>)]
    /\ UNCHANGED Subscriber

\* to_string()
CallDisplay ==
    /\ \/ Pending("display_pipeline")
            /\ call' = Response(call.op, call.arg, PipelineDisplay(call.arg))
       \/ Pending("display_task")
            /\ call' = Response(call.op, call.arg, TaskDisplay(call.arg))
    /\ UNCHANGED Subscriber

CallPipelineUid ==
    /\ Pending("pipeline_uid")
    /\ call' = Response(call.op, call.arg, pipeline_uid(call.arg))
    /\ UNCHANGED Subscriber

Next ==
    \/ CallFromStr
    \/ CallFromCpuMillis
    \/ CallNamedCapacity
    \/ CallDeserialize
    \/ CallSerialize
    \/ CallRoundTrip
    \/ CallArithmetic
    \/ CallErrorCode
    \/ CallNewError
    \/ CallFromAskError
    \/ CallCompareTasks
    \/ CallLookup
    \/ CallDisplay
    \/ CallPipelineUid

Spec == Init /\ [][Next]_vars

\* ----------------------------------------------------- event delivery

InitShards ==
    /\ call = Request("none", <<>>)
    /\ InitSubscriber

\* The event broker delivers one published update to the subscriber.
Deliver ==
    /\ \E su \in SourceUids, list \in UpdateLists :
        LET update == ShardPositionsUpdate(su, list)
        IN  /\ last_update' = update
            /\ prev_view' = view
            /\ view' = ApplyUpdate(view, update)
    /\ UNCHANGED call

NextShards == Deliver

SpecShards == InitShards /\ [][NextShards]_vars

\* ------------------------------------------------------------- claims

Done(op) == call.op = op /\ call.done

SameIndexAndSource(a, b) == a.index_uid = b.index_uid /\ a.source_id = b.source_id

\* Two IndexingError values of the same variant and payload.
SameError(x, y) == x.variant = y.variant /\ x.f0 = y.f0

C2_AskErrorMapping ==
    Done("from_ask_error")
        => /\ call.arg.variant \in {"ErrorReply", "MessageNotDelivered", "ProcessMessageError"}
           /\ call.arg.variant = "ErrorReply" => SameError(call.ret, call.arg.f0)
           /\ call.arg.variant = "MessageNotDelivered"
                => /\ call.ret.variant = "Unavailable"
                   /\ call.ret.f0 = "request could not be delivered to actor"
           /\ call.arg.variant = "ProcessMessageError"
                => /\ call.ret.variant = "Internal"
                   /\ call.ret.f0 = "an error occurred while processing the request"

C2_Witness ==
    /\ Done("from_ask_error")
    /\ call.arg.variant = "ErrorReply"
    /\ call.arg.f0.variant = "Metastore"
    /\ call.ret.variant = "Metastore"
    /\ call.ret.f0.code = "NotFound"

\* C3: error_code gives Internal for Internal, Timeout for Timeout,
\* Unavailable for Unavailable, Unimplemented for Unimplemented, and for
\* Metastore(e) the code of e, whatever the message carried.
C3_ErrorCodeTotal ==
    Done("error_code")
        => /\ call.ret \in ServiceErrorCodes
           /\ call.arg.variant \in {"Internal", "Timeout", "Unavailable", "Unimplemented"}
                => call.ret = call.arg.variant
           /\ call.arg.variant = "Metastore" => call.ret = call.arg.f0.code

C3_Witness ==
    /\ Done("error_code")
    /\ call.arg.variant = "Metastore"
    /\ call.arg.f0.code = "AlreadyExists"
    /\ call.ret = "AlreadyExists"

\* C4: two tasks that differ in index identifier or in source identifier are
\* never equal, whatever their other fields.
C4_DifferentWorkNeverEqual ==
    Done("compare_tasks") /\ ~SameIndexAndSource(call.arg[1], call.arg[2])
        => call.ret = FALSE

C4_Witness ==
    /\ Done("compare_tasks")
    /\ call.arg[1].index_uid = call.arg[2].index_uid
    /\ call.arg[1].source_id # call.arg[2].source_id
    /\ call.arg[1].pipeline_uid = call.arg[2].pipeline_uid
    /\ call.arg[1].params = call.arg[2].params
    /\ call.ret = FALSE

\* C5: after each delivered update, every shard the update lists holds the
\* position the update gives it (the last one listed for that shard), whether
\* that position is above or below the one held before, and every shard the
\* update does not list, and every other source, keeps the position it had.
C5_LastDeliveredWins ==
    last_update # NoUpdate
        => LET su == last_update.source_uid
               list == last_update.updated_shard_positions
           IN  /\ \A i \in DOMAIN list :
                    (\A j \in DOMAIN list : j > i => list[j][1] # list[i][1])
                        => view[su][list[i][1]] = list[i][2]
               /\ \A sh \in ShardIds :
                    (\A i \in DOMAIN list : list[i][1] # sh)
                        => view[su][sh] = prev_view[su][sh]
               /\ \A other \in SourceUids \ {su} : view[other] = prev_view[other]

\* {A->5, B->9} followed by {A->7} leaves {A->7, B->9}.
C5_Witness ==
    /\ last_update.updated_shard_positions = <<<<"A", 7>>>>
    /\ prev_view[last_update.source_uid]["A"] = 5
    /\ prev_view[last_update.source_uid]["B"] = 9
    /\ view[last_update.source_uid]["A"] = 7
    /\ view[last_update.source_uid]["B"] = 9

\* C6: a capacity of n milli-CPUs serializes to the string "<n>m", the text of
\* its Display, whether it was built from n or deserialized from a number or
\* from a string, and that string deserializes to the same capacity.
C6_CanonicalSerialization ==
    /\ Done("serialize")
        => /\ call.ret.kind = "String"
           /\ call.ret.str = U32Display(cpu_millis(call.arg)) \o <<"m">>
           /\ call.ret.str = CapDisplay(call.arg)
           /\ Deserialize(call.ret) = Ok(call.arg)
           /\ call.arg = mcpu(U32(2500)) => Text(call.ret.str) = "2500m"
    /\ Done("round_trip") /\ call.ret.tag = "Ok"
        => /\ call.wire.kind = "String"
           /\ call.wire.str = U32Display(cpu_millis(call.ret.val)) \o <<"m">>
           /\ call.wire.str = CapDisplay(call.ret.val)
           /\ call.back = call.ret

C6_Witness ==
    /\ Done("round_trip")
    /\ call.arg = JsonNumber(FALSE, 12, 10)
    /\ call.ret = Ok(mcpu(U32(1200)))
    /\ Text(call.wire.str) = "1200m"
    /\ call.back = Ok(mcpu(U32(1200)))

\* C7: deserializing a bare JSON number x >= 0 succeeds and yields the
\* capacity of x * 1000 milli-CPUs truncated toward zero.
C7_NumberTimesThousand ==
    Done("deserialize") /\ call.arg.kind = "Number"
        => (~call.arg.neg /\ call.arg.num <= 2000000
              => call.ret = Ok(from_cpu_millis(U32((call.arg.num * 1000) \div call.arg.den))))

\* C8, as stated: from_str gives a capacity exactly when the input is decimal
\* digits followed by 'm', and an error for every other input.
C8_DigitsThenM ==
    Done("from_str")
        => LET s == call.arg
               digits_then_m ==
                   /\ Len(s) >= 2
                   /\ s[Len(s)] = "m"
                   /\ \A i \in 1..(Len(s) - 1) : IsDigit(s[i])
           IN  call.ret.tag = (IF digits_then_m THEN "Ok" ELSE "Err")

\* The digits without their leading zeros ("0" for zero).
RECURSIVE Canonical(_)
Canonical(digits) ==
    IF Len(digits) > 1 /\ Head(digits) = "0" THEN Canonical(Tail(digits)) ELSE digits

\* The first place where two digit strings of one length differ, 0 if none.
FirstDifference(x, y) ==
    IF x = y THEN 0 ELSE CHOOSE i \in DOMAIN x : x[i] # y[i] /\ \A j \in 1..(i - 1) : x[j] = y[j]

\* The canonical digits denote a value of at most 4294967295.
FitsU32(digits) ==
    LET max == <<"4", "2", "9", "4", "9", "6", "7", "2", "9", "5">>
        i == FirstDifference(digits, max)
    IN  \/ Len(digits) < 10
        \/ Len(digits) = 10 /\ (i = 0 \/ DigitVal(digits[i]) < DigitVal(max[i]))

\* C8, amended: from_str(s) is Ok(from_cpu_millis(n)) when s is a decimal
\* numeral of value n <= 4294967295, optionally preceded by '+', followed by
\* 'm'; without a trailing 'm' it is the error naming s and the missing suffix;
\* with a trailing 'm' after anything else (no digit, a character that is not a
\* digit, a value above 4294967295) it is the error "invalid cpu capacity: s.".
C8_ParseOrDescriptiveError ==
    Done("from_str")
        => LET s == call.arg
               has_m == s # <<>> /\ s[Len(s)] = "m"
               body == SubSeq(s, 1, Len(s) - 1)
               digits == IF body # <<>> /\ Head(body) = "+" THEN Tail(body) ELSE body
               numeral ==
                   /\ digits # <<>>
                   /\ \A i \in DOMAIN digits : IsDigit(digits[i])
                   /\ FitsU32(Canonical(digits))
           IN  /\ ~has_m
                    => /\ call.ret.tag = "Err"
                       /\ call.ret.val =
                            "invalid cpu capacity: " \o Backtick \o Text(s) \o Backtick
                                \o ". String format expects a trailing 'm'."
               /\ has_m /\ numeral
                    => /\ call.ret.tag = "Ok"
                       /\ U32Display(cpu_millis(call.ret.val)) = Canonical(digits)
               /\ has_m /\ ~numeral
                    => /\ call.ret.tag = "Err"
                       /\ call.ret.val =
                            "invalid cpu capacity: " \o Backtick \o Text(s) \o Backtick \o "."

C8_Witness ==
    /\ Done("from_str")
    /\ call.arg = <<"4", "2", "9", "4", "9", "6", "7", "2", "9", "6", "m">>
    /\ call.ret.tag = "Err"
    /\ call.ret.val = "invalid cpu capacity: " \o Backtick \o "4294967296m" \o Backtick \o "."

\* C9: from_cpu_millis(n).cpu_millis() is n for every u32 n; zero() holds 0,
\* one_cpu_thread() holds 1000 and PIPELINE_FULL_CAPACITY holds 4000.
C9_MillisRoundTrip ==
    /\ Done("from_cpu_millis") => call.ret = call.arg
    /\ Done("zero") => call.ret = U32(0)
    /\ Done("one_cpu_thread") => call.ret = U32(1000)
    /\ Done("PIPELINE_FULL_CAPACITY") => call.ret = U32(4000)

C9_Witness ==
    /\ Done("from_cpu_millis")
    /\ call.arg = U32Max
    /\ call.ret = U32Max

\* C10: an IndexingPipelineId displays as "<index>:<source>"; every id with the
\* same index and source, whatever its node and pipeline uid, and every task
\* with that index and source display the same string.
C10_DisplayIndexAndSource ==
    /\ Done("display_pipeline")
        => /\ call.ret = call.arg.index_uid \o ":" \o call.arg.source_id
           /\ \A other \in PipelineIds :
                SameIndexAndSource(other, call.arg) => PipelineDisplay(other) = call.ret
           /\ \A task \in Tasks :
                SameIndexAndSource(task, call.arg) => TaskDisplay(task) = call.ret
    /\ Done("display_task")
        => call.ret = call.arg.index_uid \o ":" \o call.arg.source_id

C10_Witness ==
    /\ Done("display_pipeline")
    /\ call.arg.node_id = "node-2"
    /\ call.arg.pipeline_uid = 2
    /\ call.ret = "wiki:01H:kafka"

\* x < y on u32.
Less(x, y) == x.hi < y.hi \/ (x.hi = y.hi /\ x.lo < y.lo)

\* x + y as a 33-bit number: the u32 sum and its carry.
Sum(x, y) ==
    LET lo == x.lo + y.lo
        hi == x.hi + y.hi + lo \div Limb
    IN  [carry |-> hi \div Limb, hi |-> hi % Limb, lo |-> lo % Limb]

\* C11: for a >= b, (a - b).cpu_millis() is a.cpu_millis() - b.cpu_millis();
\* for a < b the subtraction returns no error value: it aborts (overflow
\* checks on) or gives the difference plus 2^32 (overflow checks off), which
\* is never the mathematical difference.
C11_SubNoUnderflowGuard ==
    Done("sub")
        => LET a == cpu_millis(call.arg[1])
               b == cpu_millis(call.arg[2])
               checks == call.arg[3]
           IN  /\ call.ret.tag \in {"Ok", "Panic"}
               /\ ~Less(a, b)
                    => /\ call.ret.tag = "Ok"
                       /\ Sum(cpu_millis(call.ret.val), b) = [carry |-> 0, hi |-> a.hi, lo |-> a.lo]
               /\ Less(a, b) /\ checks => call.ret.tag = "Panic"
               /\ Less(a, b) /\ ~checks
                    => /\ call.ret.tag = "Ok"
                       /\ Sum(cpu_millis(call.ret.val), b) = [carry |-> 1, hi |-> a.hi, lo |-> a.lo]
                       /\ Less(a, cpu_millis(call.ret.val))

\* 1000m - 4000m without overflow checks is 4294964296m.
C11_Witness ==
    /\ Done("sub")
    /\ call.arg[1] = mcpu(U32(1000))
    /\ call.arg[2] = mcpu(U32(4000))
    /\ call.arg[3] = FALSE
    /\ call.ret.tag = "Ok"
    /\ Text(CapDisplay(call.ret.val)) = "4294964296m"

\* C12: for all tasks a and b, a == b implies hash(a) = hash(b), so a set that
\* holds a finds it again when asked for an equal b; the hash is made of
\* index_uid and source_id alone.
C12_EqImpliesSameHash ==
    /\ Done("compare_tasks") /\ call.ret = TRUE => call.hash_a = call.hash_b
    /\ Done("lookup")
        => /\ call.eq => call.hash_a = call.hash_b
           /\ call.ret = call.eq
           /\ call.hash_a = <<call.arg[1].index_uid, call.arg[1].source_id>>
           /\ call.hash_b = <<call.arg[2].index_uid, call.arg[2].source_id>>

C12_Witness ==
    /\ Done("lookup")
    /\ call.arg[1].pipeline_uid = Some(2)
    /\ call.eq
    /\ call.hash_a = call.hash_b
    /\ call.ret = TRUE

====
